---- MODULE Spec2Model ----
(***************************************************************************)
(* Model of lib/AnalysisFunc.py of DGINN: the alignment partitioning      *)
(* functions cutLongBranches / checkPhyMLTree (long-branch splitting and   *)
(* its refinement loop), parseGard (breakpoint segmentation), gardRecomb   *)
(* (recombination detection over a map of alignments) and isoformAln       *)
(* (isoform clustering).                                                   *)
(*                                                                         *)
(* Python dicts are modelled as sequences of <<key, value>> pairs in       *)
(* insertion order, strings that the code only concatenates as TLA+        *)
(* strings, strings that the code splits as the sequence of their          *)
(* components, and sequences of an alignment as sequences of one-letter    *)
(* strings.                                                                *)
(***************************************************************************)
EXTENDS Integers, Sequences, FiniteSets, TLC

VARIABLES
    pc,         \* "ready" before the call, then the name of the function that returned
    aln,        \* the alignment path argument, as its "."-separated components
    disk,       \* the files on disk: path |-> content
    dAlnTree,   \* cutLongBranches / checkPhyMLTree: the AlignmentTreeMap argument
    nbSp,       \* cutLongBranches: minimum group size
    LBOpt,      \* cutLongBranches: the long-branch option
    loadTree,   \* cutLongBranches: the tree ete3 loads from dAlnTree[aln]
    kh,         \* parseGard: the lines of the GARD report
    hostFile,   \* gardRecomb: the hostFile argument
    trace,      \* what the call computed on its way (locals worth observing)
    calls,      \* the external tools invoked, in order
    ret         \* the value the call returned

vars == <<pc, aln, disk, dAlnTree, nbSp, LBOpt, loadTree, kh, hostFile, trace, calls, ret>>

None == [none |-> TRUE]

----------------------------------------------------------------------------
(* Python built-ins used by the code                                       *)

\* dict: keys in insertion order
DictKeys(d) == {d[i][1] : i \in DOMAIN d}

DictKeyList(d) == [i \in DOMAIN d |-> d[i][1]]

DictHas(d, k) == \E i \in DOMAIN d : d[i][1] = k

DictGet(d, k) == d[CHOOSE i \in DOMAIN d : d[i][1] = k][2]

\* d[k] = v : an existing key keeps its position
DictSet(d, k, v) ==
    IF DictHas(d, k)
    THEN [i \in DOMAIN d |-> IF d[i][1] = k THEN <<k, v>> ELSE d[i]]
    ELSE Append(d, <<k, v>>)

\* d.pop(k, None)
DictPop(d, k) == SelectSeq(d, LAMBDA e : e[1] # k)

\* {k: src[k] for k in keys if k in src}
RECURSIVE DictComp(_, _, _)
DictComp(keys, src, acc) ==
    IF keys = <<>> THEN acc
    ELSE DictComp(Tail(keys), src,
                  IF DictHas(src, Head(keys))
                  THEN DictSet(acc, Head(keys), DictGet(src, Head(keys)))
                  ELSE acc)

RECURSIVE DictPopAll(_, _)
DictPopAll(d, keys) ==
    IF keys = <<>> THEN d ELSE DictPopAll(DictPop(d, Head(keys)), Tail(keys))

RECURSIVE SumSeq(_)
SumSeq(s) == IF s = <<>> THEN 0 ELSE Head(s) + SumSeq(Tail(s))

RECURSIVE Flatten(_)
Flatten(ss) == IF ss = <<>> THEN <<>> ELSE Head(ss) \o Flatten(Tail(ss))

\* ".".join(parts)
RECURSIVE JoinWith(_, _)
JoinWith(parts, sep) ==
    IF Len(parts) = 1 THEN parts[1]
    ELSE parts[1] \o sep \o JoinWith(Tail(parts), sep)

\* s[a:b] of Python for 0 <= a, 0 <= b
PySlice(s, a, b) ==
    LET hi == IF b > Len(s) THEN Len(s) ELSE b
    IN  IF a >= hi THEN <<>> ELSE SubSeq(s, a + 1, hi)

----------------------------------------------------------------------------
(* The tree of ete3: nodes 1..n numbered in level order, node 1 the root,  *)
(* parent[i] the parent of node i, dist[i] the length of the branch above  *)
(* node i.                                                                 *)

MaxNodes == 5

Dists == {1, 50}

TreeShapes(n) ==
    {p \in [1..n -> 0..(n - 1)] :
        /\ p[1] = 0
        /\ \A i \in 2..n : p[i] >= 1 /\ p[i] < i
        /\ \A i \in 3..n : p[i - 1] <= p[i]}

\* node.get_children(), in order
get_children(t, i) ==
    SelectSeq([j \in 1..t.n |-> j], LAMBDA j : t.parent[j] = i)

\* the name of a leaf
LeafName(i) == "sp" \o ToString(i)

\* node.get_leaf_names(): the leaves below the node, in preorder
RECURSIVE get_leaf_names(_, _)
get_leaf_names(t, i) ==
    LET ch == get_children(t, i)
    IN  IF ch = <<>> THEN <<LeafName(i)>>
        ELSE Flatten([k \in DOMAIN ch |-> get_leaf_names(t, ch[k])])

\* tree.traverse(): level order, the default strategy of ete3
RECURSIVE LevelOrder(_, _, _)
LevelOrder(t, queue, out) ==
    IF queue = <<>> THEN out
    ELSE LevelOrder(t, Tail(queue) \o get_children(t, Head(queue)),
                    Append(out, Head(queue)))

traverse(t) == LevelOrder(t, <<1>>, <<>>)

\* the sequence the alignment holds for a leaf
SeqOfLeaf(i) ==
    LET letters == <<"A", "C", "G", "T">>
    IN  <<letters[(i % 4) + 1], letters[((i \div 4) % 4) + 1], "-">>

\* the alignment phyml built the tree from: one record per leaf
AlnOfTree(t) ==
    LET leaves == SelectSeq([j \in 1..t.n |-> j], LAMBDA j : get_children(t, j) = <<>>)
    IN  [k \in DOMAIN leaves |-> <<LeafName(leaves[k]), SeqOfLeaf(leaves[k])>>]

----------------------------------------------------------------------------
(* cutLongBranches                                                         *)

\* LBOpt as the code reads it: which keyword it contains, whether it has
\* a "(", and the number between the parentheses
LBOpts ==
    {[name |-> "cutoff", paren |-> FALSE, num |-> 0],
     [name |-> "cutoff", paren |-> TRUE, num |-> 1],
     [name |-> "IQR", paren |-> TRUE, num |-> 2]}

DefaultFactor == 50

Factor(opt) == IF opt.paren THEN opt.num ELSE DefaultFactor

\* 4 * (the quantile k/4 of the sorted list xs), pandas' linear interpolation
Quantile4(xs, k) ==
    LET h == (Len(xs) - 1) * k
        i == h \div 4
        r == h % 4
    IN  IF r = 0 THEN 4 * xs[i + 1]
        ELSE 4 * xs[i + 1] + r * (xs[i + 2] - xs[i + 1])

\* longDist as the fraction num / den
LongDist(opt, dist) ==
    IF opt.name = "cutoff"
    THEN [num |-> SumSeq(dist) * Factor(opt), den |-> Len(dist)]
    ELSE LET srt == SortSeq(dist, <)
             Q1 == Quantile4(srt, 1)
             Q3 == Quantile4(srt, 3)
         IN  [num |-> Q3 + Factor(opt) * (Q3 - Q1), den |-> 4]

\* a variant of IsLong: a branch as long as the threshold counts as long
IsLong_AtLeast(d, longDist) == d * longDist.den >= longDist.num

\* leaf.dist > longDist
IsLong(d, longDist) == d * longDist.den > longDist.num

\* matches.index(node)
IndexOf(s, x) == (CHOOSE i \in DOMAIN s : s[i] = x /\ \A j \in 1..(i - 1) : s[j] # x) - 1

\* aln.split(".")[0] + "_part" + str(k) + ".fasta"
PartName(a, k) == a[1] \o "_part" \o ToString(k) \o ".fasta"

\* a variant of LBStep: the group is not removed from the remaining pool
LBStep_NoPop(st, a, t, matches, node, min) ==
    LET gp == get_children(t, node)
        lNewGp == Flatten([k \in DOMAIN gp |-> get_leaf_names(t, gp[k])])
        newAln == PartName(a, IndexOf(matches, node) + 1)
        dNewAln == DictComp(lNewGp, st.dID2Seq, <<>>)
        keep == Len(dNewAln) > min - 1
    IN  [dID2Seq |-> st.dID2Seq,
         dAlnTree |-> IF keep THEN DictSet(st.dAlnTree, newAln, "") ELSE st.dAlnTree,
         disk |-> IF keep THEN DictSet(st.disk, newAln, dNewAln) ELSE st.disk,
         groups |-> Append(st.groups, dNewAln)]

\* a variant of LBStep: the group size is not tested
LBStep_NoMinSize(st, a, t, matches, node, min) ==
    LET gp == get_children(t, node)
        lNewGp == Flatten([k \in DOMAIN gp |-> get_leaf_names(t, gp[k])])
        newAln == PartName(a, IndexOf(matches, node) + 1)
        dNewAln == DictComp(lNewGp, st.dID2Seq, <<>>)
    IN  [dID2Seq |-> DictPopAll(st.dID2Seq, lNewGp),
         dAlnTree |-> DictSet(st.dAlnTree, newAln, ""),
         disk |-> DictSet(st.disk, newAln, dNewAln),
         groups |-> Append(st.groups, dNewAln)]

\* one round of "for node in matches"; st holds dID2Seq, dAlnTree, the
\* files written and the groups built so far
LBStep(st, a, t, matches, node, min) ==
    LET gp == get_children(t, node)
        lNewGp == Flatten([k \in DOMAIN gp |-> get_leaf_names(t, gp[k])])
        newAln == PartName(a, IndexOf(matches, node) + 1)
        dNewAln == DictComp(lNewGp, st.dID2Seq, <<>>)
        pool == DictPopAll(st.dID2Seq, lNewGp)
        keep == Len(dNewAln) > min - 1
    IN  [dID2Seq |-> pool,
         dAlnTree |-> IF keep THEN DictSet(st.dAlnTree, newAln, "") ELSE st.dAlnTree,
         disk |-> IF keep THEN DictSet(st.disk, newAln, dNewAln) ELSE st.disk,
         groups |-> Append(st.groups, dNewAln)]

RECURSIVE LBLoop(_, _, _, _, _, _)
LBLoop(st, a, t, matches, i, min) ==
    IF i > Len(matches) THEN st
    ELSE LBLoop(LBStep(st, a, t, matches, matches[i], min), a, t, matches, i + 1, min)

\* the whole function: the returned map, the files on disk and the locals
cutLongBranches(a, map, min, opt, t, files) ==
    LET order == traverse(t)
        dist == [k \in DOMAIN order |-> t.dist[order[k]]]
        longDist == LongDist(opt, dist)
        matches == SelectSeq(order, LAMBDA n : IsLong(t.dist[n], longDist))
        path == JoinWith(a, ".")
    IN  IF Len(matches) > 0
        THEN LET st0 == [dID2Seq |-> DictComp(DictKeyList(DictGet(files, path)),
                                              DictGet(files, path), <<>>),
                         dAlnTree |-> map, disk |-> files, groups |-> <<>>]
                 st == LBLoop(st0, a, t, matches, 1, min)
                 alnLeft == PartName(a, Len(matches) + 1)
                 keep == Len(st.dID2Seq) > min - 1
                 map2 == IF keep THEN DictSet(st.dAlnTree, alnLeft, "") ELSE st.dAlnTree
             IN  [dAlnTree |-> DictPop(map2, path),
                  disk |-> IF keep THEN DictSet(st.disk, alnLeft, st.dID2Seq) ELSE st.disk,
                  locals |-> [longDist |-> longDist, matches |-> matches,
                              groups |-> st.groups, rest |-> st.dID2Seq,
                              dAlnTree |-> DictPop(map2, path)]]
        ELSE [dAlnTree |-> map, disk |-> files,
              locals |-> [longDist |-> longDist, matches |-> matches,
                          groups |-> <<>>, rest |-> <<>>, dAlnTree |-> map]]

----------------------------------------------------------------------------
(* checkPhyMLTree and the external tools it calls                          *)

\* data.o, the output directory
OutDir == "out/"

\* runPrank returns o + "prank" + ".best.fas", whatever its input
runPrank(ORFs, o) == (o \o "prank") \o ".best.fas"

\* runPhyML returns geneDir + "tree.phylip", whatever its input
runPhyML(a, phymlOpt, geneDir) == geneDir \o "tree.phylip"

\* one round of "for aln in dAlnTree"; st holds dAlnTree2, the files on
\* disk and the tools called so far
RefineStep(st, map, k, o, opt) ==
    IF map[k][2] = ""
    THEN LET aln2 == runPrank(map[k][1], o)
             tree == runPhyML(aln2, opt, o)
         IN  [dAlnTree2 |-> DictSet(st.dAlnTree2, aln2, tree \o "_phyml_tree.txt"),
              disk |-> DictSet(st.disk, aln2, DictGet(st.disk, map[k][1])),
              calls |-> st.calls \o <<<<"runPrank", map[k][1]>>, <<"runPhyML", aln2>>>>]
    ELSE st

RECURSIVE RefineLoop(_, _, _, _, _)
RefineLoop(st, map, k, o, opt) ==
    IF k > Len(map) THEN st
    ELSE RefineLoop(RefineStep(st, map, k, o, opt), map, k + 1, o, opt)

checkPhyMLTree(a, map, min, opt, t, files, o) ==
    LET cut == cutLongBranches(a, map, min, opt, t, files)
        st == RefineLoop([dAlnTree2 |-> <<>>, disk |-> cut.disk, calls |-> <<>>],
                         cut.dAlnTree, 1, o, opt)
    IN  [ret |-> IF Len(st.dAlnTree2) > 0 THEN st.dAlnTree2 ELSE cut.dAlnTree,
         cut |-> cut, disk |-> st.disk, calls |-> st.calls]

----------------------------------------------------------------------------
(* The long-branch specification: a call of cutLongBranches or of          *)
(* checkPhyMLTree on an alignment, its tree and a map holding it.          *)

AlnNames == {<<"aln", "fasta">>, <<"gene", "best", "fas">>}

\* ete3.Tree(dAlnTree[aln]): any tree of at most max nodes
InitTree(max) ==
    \E n \in 1..max : \E parent \in TreeShapes(n) : \E dist \in [1..n -> Dists] :
        loadTree = [n |-> n, parent |-> parent, dist |-> dist]

MinSizes == {1, 2, 4}

\* what the map holds besides the alignment: nothing, an unrelated
\* alignment, or an alignment that bears the name of the first part
OtherEntries(a) ==
    IF Len(a) > 2 THEN {<<>>}
    ELSE {<<>>,
          <<<<"other.fasta", "other_tree.txt">>>>,
          <<<<PartName(a, 1), "old_tree.txt">>>>}

InitLB ==
    /\ pc = "ready"
    /\ aln \in AlnNames
    /\ InitTree(MaxNodes)
    /\ nbSp \in MinSizes
    /\ LBOpt \in LBOpts
    /\ \E other \in OtherEntries(aln) :
          dAlnTree = Append(other, <<JoinWith(aln, "."), "aln_tree.txt">>)
    /\ disk = <<<<JoinWith(aln, "."), AlnOfTree(loadTree)>>>>
    /\ kh = None
    /\ hostFile = None
    /\ trace = None
    /\ calls = <<>>
    /\ ret = None

CutLongBranches ==
    /\ pc = "ready"
    /\ LET r == cutLongBranches(aln, dAlnTree, nbSp, LBOpt, loadTree, disk)
       IN  /\ ret' = r.dAlnTree
           /\ disk' = r.disk
           /\ trace' = r.locals
    /\ pc' = "cutLongBranches"
    /\ UNCHANGED <<aln, dAlnTree, nbSp, LBOpt, loadTree, kh, hostFile, calls>>

CheckPhyMLTree ==
    /\ pc = "ready"
    /\ LET r == checkPhyMLTree(aln, dAlnTree, nbSp, LBOpt, loadTree, disk, OutDir)
       IN  /\ ret' = r.ret
           /\ disk' = r.disk
           /\ trace' = r.cut.locals
           /\ calls' = r.calls
    /\ pc' = "checkPhyMLTree"
    /\ UNCHANGED <<aln, dAlnTree, nbSp, LBOpt, loadTree, kh, hostFile>>

NextLB == CutLongBranches \/ CheckPhyMLTree

SpecLB == InitLB /\ [][NextLB]_vars

----------------------------------------------------------------------------
(* parseGard                                                               *)

\* a line of the report as the code reads it: whether it contains the
\* marker "breakpoints", and the integers between its first "[" and its
\* first "]" (<<>> when int() finds no integer list there)
Line(marker, list) == [marker |-> marker, list |-> list]

\* a variant of ScanReport: the list is read from the marker line itself
ScanReport_SameLine(lines) ==
    LET hit == {i \in DOMAIN lines : lines[i].marker}
    IN  IF hit = {} THEN [lBP |-> <<>>, read |-> Len(lines), raised |-> FALSE]
        ELSE LET i == CHOOSE m \in hit : \A j \in hit : m <= j
             IN  [lBP |-> lines[i].list, read |-> i, raised |-> lines[i].list = <<>>]

\* the while loop over f.readline(): the lines read, the list found and
\* whether list(map(int, ...)) raised; readline() at the end of the file
\* gives "", which holds no integer
RECURSIVE ScanFrom(_, _)
ScanFrom(lines, i) ==
    IF i > Len(lines) THEN [lBP |-> <<>>, read |-> Len(lines), raised |-> FALSE]
    ELSE IF lines[i].marker
         THEN IF i + 1 > Len(lines)
              THEN [lBP |-> <<>>, read |-> Len(lines), raised |-> TRUE]
              ELSE [lBP |-> lines[i + 1].list, read |-> i + 1,
                    raised |-> lines[i + 1].list = <<>>]
         ELSE ScanFrom(lines, i + 1)

ScanReport(lines) == ScanFrom(lines, 1)

\* a variant of RoundUp3: a multiple of 3 moves to the next one as well
RoundUp3_Always(bp) == bp + 3 - (bp % 3)

\* a variant of RoundUp3: rounds to the multiple of 3 below
RoundUp3_Down(bp) == bp - (bp % 3)

\* while bp % 3 != 0: bp += 1
RECURSIVE RoundUp3(_)
RoundUp3(bp) == IF bp % 3 # 0 THEN RoundUp3(bp + 1) ELSE bp

\* "for bp in lBP": lPos and the flat list lFrag
RECURSIVE CutLoop(_, _, _, _, _)
CutLoop(lBP, i, lPos, lFrag, seqs) ==
    IF i > Len(lBP) THEN [lPos |-> lPos, lFrag |-> lFrag]
    ELSE LET pos == Append(lPos, RoundUp3(lBP[i]))
             n == Len(pos)
         IN  CutLoop(lBP, i + 1, pos,
                     lFrag \o [j \in DOMAIN seqs |-> PySlice(seqs[j], pos[n - 1], pos[n])],
                     seqs)

\* a variant of TailFrags: the last fragments start at the first column
TailFrags_Whole(seqs, last) == seqs

\* the sub-sequences from the last breakpoint to the end
TailFrags(seqs, last) == [i \in DOMAIN seqs |-> PySlice(seqs[i], last, Len(seqs[i]))]

\* "_{:d}_{:d}".format(...)
Extension(lBP, x) ==
    IF lBP[x - 1] = 0
    THEN ("_" \o ToString(lBP[x - 1])) \o ("_" \o ToString(lBP[x]))
    ELSE ("_" \o ToString(lBP[x - 1] - 1)) \o ("_" \o ToString(lBP[x]))

\* o + aln.split("/")[-1].split(".")[0] + "_frag" + extension + ".best.fas"
FragName(o, a, extension) == ((o \o a.name[1]) \o "_frag") \o (extension \o ".best.fas")

\* "for x in range(1, len(lBP))" (x counted from 1 here, so lBP[x], lBP[x+1]);
\* st holds index, the files on disk, lOutFrag and the fragments written
RECURSIVE WriteLoop(_, _, _, _, _, _, _)
WriteLoop(st, lBP, x, lNameGene, lFrag, o, a) ==
    IF x + 1 > Len(lBP) THEN st
    ELSE LET outFrag == FragName(o, a, Extension(lBP, x + 1))
             dFrag == [k \in DOMAIN lNameGene |-> <<lNameGene[k], lFrag[st.index + k]>>]
         IN  WriteLoop([index |-> st.index + Len(lNameGene),
                        disk |-> DictSet(st.disk, outFrag, dFrag),
                        lOutFrag |-> Append(st.lOutFrag, outFrag),
                        frags |-> Append(st.frags, dFrag)],
                       lBP, x + 1, lNameGene, lFrag, o, a)

AlnPath(a) == JoinWith(a.dirs \o <<JoinWith(a.name, ".")>>, "/")

\* the whole function
parseGard(lines, a, o, files) ==
    LET scan == ScanReport(lines)
    IN  IF scan.raised
        THEN [ret |-> [raised |-> "ValueError"], disk |-> files, scan |-> scan,
              cuts |-> <<>>, frags |-> <<>>]
        ELSE IF Len(scan.lBP) = 0
        THEN [ret |-> <<>>, disk |-> files, scan |-> scan, cuts |-> <<>>, frags |-> <<>>]
        ELSE LET dFname2Fseq == DictGet(files, AlnPath(a))
                 lNameGene == DictKeyList(dFname2Fseq)
                 seqs == [j \in DOMAIN lNameGene |-> DictGet(dFname2Fseq, lNameGene[j])]
                 lenSeq == Len(seqs[1])
                 cut == CutLoop(scan.lBP, 1, <<0>>, <<>>, seqs)
                 lFrag == cut.lFrag \o TailFrags(seqs, cut.lPos[Len(cut.lPos)])
                 lBP == Append(cut.lPos, lenSeq)
                 st == WriteLoop([index |-> 0, disk |-> files, lOutFrag |-> <<>>,
                                  frags |-> <<>>],
                                 lBP, 1, lNameGene, lFrag, o, a)
             IN  [ret |-> st.lOutFrag, disk |-> st.disk, scan |-> scan,
                  cuts |-> lBP, frags |-> st.frags]

\* the locals of parseGard that the state keeps
GardLocals(r) == [scan |-> r.scan, cuts |-> r.cuts, frags |-> r.frags]

----------------------------------------------------------------------------
(* The breakpoint specification: a call of parseGard on a report and an    *)
(* alignment.                                                              *)

MaxBP == 12

MaxBPs == 3

MaxLines == 3

GardLens == {5, 9, 30}

\* an alignment of two sequences of n columns
GardAln(n) ==
    LET letters == <<"A", "C", "G", "T">>
    IN  <<<<"seqA", [i \in 1..n |-> letters[(i % 4) + 1]]>>,
          <<"seqB", [i \in 1..n |-> IF i % 5 = 0 THEN "-"
                                    ELSE letters[((i \div 2) % 4) + 1]]>>>>

GardAlnName == [dirs |-> <<"out">>, name |-> <<"prank", "best", "fas">>]

\* reports of any shape, over a few lines
ScanLines == {Line(m, l) : m \in BOOLEAN, l \in {<<>>, <<3>>, <<4, 8>>}}

ScanReports(n) == \E k \in 0..n : kh \in [1..k -> ScanLines]

\* reports of GARD: the marker line, then the line of the list, any list
\* of 1 to n breakpoints up to max
CutReports(max, n) ==
    \E k \in 1..n : \E l \in [1..k -> 0..max] :
        kh = <<Line(TRUE, <<>>), Line(FALSE, l)>>

InitGard ==
    /\ pc = "ready"
    /\ aln = GardAlnName
    /\ ScanReports(MaxLines) \/ CutReports(MaxBP, MaxBPs)
    /\ \E n \in GardLens : disk = <<<<AlnPath(aln), GardAln(n)>>>>
    /\ dAlnTree = None
    /\ nbSp = None
    /\ LBOpt = None
    /\ loadTree = None
    /\ hostFile = None
    /\ trace = None
    /\ calls = <<>>
    /\ ret = None

ParseGard ==
    /\ pc = "ready"
    /\ LET r == parseGard(kh, aln, OutDir, disk)
       IN  /\ ret' = r.ret
           /\ disk' = r.disk
           /\ trace' = GardLocals(r)
    /\ pc' = "parseGard"
    /\ UNCHANGED <<aln, dAlnTree, nbSp, LBOpt, loadTree, kh, hostFile, calls>>

NextGard == ParseGard

SpecGard == InitGard /\ [][NextGard]_vars

----------------------------------------------------------------------------
(* gardRecomb                                                              *)
(*                                                                         *)
(* The keys of dAT are the paths of the alignments; what GARD finds in an  *)
(* alignment is an input: gard maps a path to the lines of the report      *)
(* that GARD writes for it.                                                *)

\* gardJson: o + aln.split("/")[-1] + ".GARD.json"
GardJson(o, a) == (o \o JoinWith(a.name, ".")) \o ".GARD.json"

\* runGARD: the path of the report written, or the NameError of the name
\* hostfile, which the branch of a non-empty hostFile reads and nothing binds
runGARD(a, o, host, gard, files) ==
    IF host = ""
    THEN [ret |-> GardJson(o, a), raised |-> FALSE,
          disk |-> DictSet(files, GardJson(o, a), DictGet(gard, AlnPath(a)))]
    ELSE [ret |-> [raised |-> "NameError"], raised |-> TRUE, disk |-> files]

\* "for frag in parsedFragments": st holds dFrag, the calls and the tree files
RECURSIVE FragLoop(_, _, _, _)
FragLoop(st, parsedFragments, i, o) ==
    IF i > Len(parsedFragments) THEN st
    ELSE LET frag == parsedFragments[i]
             fragTree == runPhyML(frag, "", o)
         IN  FragLoop([dFrag |-> DictSet(st.dFrag, frag, fragTree \o "_phyml_tree.txt"),
                       calls |-> Append(st.calls, <<"runPhyML", frag>>)],
                      parsedFragments, i + 1, o)

\* dAT.update(dFrag)
RECURSIVE DictUpdate(_, _, _)
DictUpdate(d, other, i) ==
    IF i > Len(other) THEN d
    ELSE DictUpdate(DictSet(d, other[i][1], other[i][2]), other, i + 1)

\* the components of a path of alns
SplitPath(p, alns) == CHOOSE a \in alns : AlnPath(a) = p

\* the whole function. "return dAT" is the last statement of the body of
\* "for aln in dAT", so the loop ends in its first round; over an empty dAT
\* the body never runs and the function returns None. An exception of
\* runGARD or of parseGard leaves the function.
gardRecomb(dAT, host, gard, files, o, alns) ==
    IF Len(dAT) = 0
    THEN [ret |-> None, raised |-> FALSE, disk |-> files, calls |-> <<>>,
          locals |-> [lGard |-> <<>>, keys |-> <<>>, parsed |-> <<>>, dFrag |-> <<>>]]
    ELSE LET key == dAT[1][1]
             a == SplitPath(key, alns)
             g == runGARD(a, o, host, gard, files)
             c1 == <<<<"runGARD", key>>>>
             c2 == Append(c1, <<"parseGard", key>>)
             p == parseGard(DictGet(g.disk, g.ret), a, o, g.disk)
             f == FragLoop([dFrag |-> <<>>, calls |-> c2], p.ret, 1, o)
         IN  IF g.raised
             THEN [ret |-> g.ret, raised |-> TRUE, disk |-> g.disk, calls |-> c1,
                   locals |-> [lGard |-> <<>>, keys |-> DictKeyList(dAT),
                               parsed |-> <<>>, dFrag |-> <<>>]]
             ELSE IF p.scan.raised
             THEN [ret |-> p.ret, raised |-> TRUE, disk |-> p.disk, calls |-> c2,
                   locals |-> [lGard |-> <<>>, keys |-> DictKeyList(dAT),
                               parsed |-> <<>>, dFrag |-> <<>>]]
             ELSE [ret |-> DictUpdate(dAT, f.dFrag, 1), raised |-> FALSE,
                   disk |-> p.disk, calls |-> f.calls,
                   locals |-> [lGard |-> <<>>, keys |-> DictKeyList(dAT),
                               parsed |-> <<<<key, p.ret>>>>, dFrag |-> f.dFrag]]

----------------------------------------------------------------------------
(* The recombination specification: a call of gardRecomb on a map of       *)
(* alignments, each with the report that GARD gives for it.                *)

MaxAlns == 2

\* the k-th alignment of the map
RecombAln(k) ==
    [dirs |-> <<"out">>, name |-> <<<<"prank", "macse", "mafft">>[k], "best", "fas">>]

RecombAlns == {RecombAln(k) : k \in 1..3}

\* what GARD reports: no breakpoint, one, two, three that round to the
\* same column, or a list that holds no integer
RecombReports ==
    {<<Line(FALSE, <<>>)>>,
     <<Line(TRUE, <<>>), Line(FALSE, <<3>>)>>,
     <<Line(TRUE, <<>>), Line(FALSE, <<4, 8>>)>>,
     <<Line(TRUE, <<>>), Line(FALSE, <<10, 11, 12>>)>>,
     <<Line(TRUE, <<>>), Line(FALSE, <<>>)>>}

HostFiles == {"", "hosts.txt"}

RecombMaps(n) ==
    \E k \in 0..n : \E lens \in [1..k -> GardLens] : \E reps \in [1..k -> RecombReports] :
        /\ dAlnTree = [i \in 1..k |-> <<AlnPath(RecombAln(i)),
                                        runPhyML(AlnPath(RecombAln(i)), "", OutDir)
                                            \o "_phyml_tree.txt">>]
        /\ disk = [i \in 1..k |-> <<AlnPath(RecombAln(i)), GardAln(lens[i])>>]
        /\ kh = [i \in 1..k |-> <<AlnPath(RecombAln(i)), reps[i]>>]

InitRecomb ==
    /\ pc = "ready"
    /\ aln = None
    /\ RecombMaps(MaxAlns)
    /\ hostFile \in HostFiles
    /\ nbSp = None
    /\ LBOpt = None
    /\ loadTree = None
    /\ trace = None
    /\ calls = <<>>
    /\ ret = None

\* dAT is updated in place: dAlnTree keeps the map as it was at the call
\* and ret is the map (or None) that the call returns
GardRecomb ==
    /\ pc = "ready"
    /\ LET r == gardRecomb(dAlnTree, hostFile, kh, disk, OutDir, RecombAlns)
       IN  /\ ret' = r.ret
           /\ disk' = r.disk
           /\ trace' = [raised |-> r.raised] @@ r.locals
           /\ calls' = r.calls
    /\ pc' = "gardRecomb"
    /\ UNCHANGED <<aln, dAlnTree, nbSp, LBOpt, loadTree, kh, hostFile>>

NextRecomb == GardRecomb

SpecRecomb == InitRecomb /\ [][NextRecomb]_vars

----------------------------------------------------------------------------
(* isoformAln                                                              *)
(*                                                                         *)
(* An identifier is the sequence of its "_"-separated components, so       *)
(* fasta.id.find("_") is -1 exactly when there is one component; the       *)
(* species is the first component and the tag the rest joined by "_".      *)

IdString(parts) == JoinWith(parts, "_")

\* the code of a character, which Python's max() compares
Ord(c) ==
    CASE c = "-" -> 45
      [] c = "A" -> 65
      [] c = "C" -> 67
      [] c = "G" -> 71
      [] c = "T" -> 84

\* the first loop: dRem, dId2Seq (species |-> tag |-> sequence) and laln
RECURSIVE ReadAln(_, _, _)
ReadAln(records, i, st) ==
    IF i > Len(records) THEN st
    ELSE LET parts == records[i][1]
             seq == records[i][2]
         IN  IF Len(parts) > 1
             THEN LET sp == parts[1]
                      tag == JoinWith(Tail(parts), "_")
                      old == IF DictHas(st.dId2Seq, sp) THEN DictGet(st.dId2Seq, sp)
                             ELSE <<>>
                  IN  ReadAln(records, i + 1,
                              [dRem |-> st.dRem,
                               dId2Seq |-> DictSet(st.dId2Seq, sp, DictSet(old, tag, seq)),
                               laln |-> IF st.laln = 0 THEN Len(seq) ELSE st.laln])
             ELSE ReadAln(records, i + 1,
                          [dRem |-> DictSet(st.dRem, parts[1], seq),
                           dId2Seq |-> st.dId2Seq,
                           laln |-> st.laln])

\* a variant of SplitCluster: the tags with a gap are left out of the split
SplitCluster_NoGaps(clust, dtagseq, pos, order) ==
    LET dlet(tag) == DictGet(dtagseq, tag)[pos]
        llet == {dlet(clust[k]) : k \in DOMAIN clust} \ {"-"}
        iter == SelectSeq(order, LAMBDA x : x \in llet)
    IN  IF Cardinality(llet) <= 1 THEN <<clust>>
        ELSE [k \in DOMAIN iter |-> SelectSeq(clust, LAMBDA tag : dlet(tag) = iter[k])]

\* what one cluster becomes at column pos (counted from 1); order is the
\* order in which Python iterates over the set llet
SplitCluster(clust, dtagseq, pos, order) ==
    LET dlet(tag) == DictGet(dtagseq, tag)[pos]
        llet == {dlet(clust[k]) : k \in DOMAIN clust} \ {"-"}
        lind == SelectSeq(clust, LAMBDA tag : dlet(tag) = "-")
        iter == SelectSeq(order, LAMBDA x : x \in llet)
    IN  IF Cardinality(llet) <= 1 THEN <<clust>>
        ELSE [k \in DOMAIN iter |-> SelectSeq(clust, LAMBDA tag : dlet(tag) = iter[k])]
             \o (IF Len(lind) # 0 THEN <<lind>> ELSE <<>>)

\* "for pos in range(laln)"
RECURSIVE ClusterLoop(_, _, _, _, _)
ClusterLoop(lclust, dtagseq, pos, laln, order) ==
    IF pos > laln THEN lclust
    ELSE ClusterLoop(Flatten([c \in DOMAIN lclust |->
                                 SplitCluster(lclust[c], dtagseq, pos, order)]),
                     dtagseq, pos + 1, laln, order)

MaxChar(S) == CHOOSE c \in S : \A d \in S : Ord(d) <= Ord(c)

\* a variant of Consensus: the smallest character of the column
Consensus_Min(clust, dtagseq, laln) ==
    [pos \in 1..laln |->
        LET S == {DictGet(dtagseq, clust[k])[pos] : k \in DOMAIN clust}
        IN  CHOOSE c \in S : \A d \in S : Ord(c) <= Ord(d)]

\* "".join([max([dtagseq[tag][pos] for tag in clust]) for pos in range(laln)])
Consensus(clust, dtagseq, laln) ==
    [pos \in 1..laln |-> MaxChar({DictGet(dtagseq, clust[k])[pos] : k \in DOMAIN clust})]

\* a variant of MergeStep: every member of a cluster is written as it is
MergeStep_KeepAll(st, sp, clust, dtagseq, laln) ==
    LET ids == [k \in DOMAIN clust |-> (sp \o "_") \o clust[k]]
    IN  [dRem |-> st.dRem \o [k \in DOMAIN clust |-> <<ids[k], DictGet(dtagseq, clust[k])>>],
         clustok |-> st.clustok \/ Len(clust) > 1,
         written |-> st.written \o
                     [k \in DOMAIN clust |->
                         [id |-> ids[k], seq |-> DictGet(dtagseq, clust[k]),
                          sp |-> sp, clust |-> <<clust[k]>>]]]

\* one round of "for clust in lclust"; st holds dRem, clustok and the
\* records assigned to dRem so far
MergeStep(st, sp, clust, dtagseq, laln) ==
    IF Len(clust) = 1
    THEN LET id == (sp \o "_") \o clust[1]
         IN  [dRem |-> DictSet(st.dRem, id, DictGet(dtagseq, clust[1])),
              clustok |-> st.clustok,
              written |-> Append(st.written,
                                 [id |-> id, seq |-> DictGet(dtagseq, clust[1]),
                                  sp |-> sp, clust |-> clust])]
    ELSE LET ntag == clust[Len(clust)] \o "_clust"
             nseq == Consensus(clust, dtagseq, laln)
             id == (sp \o "_") \o ntag
         IN  [dRem |-> DictSet(st.dRem, id, nseq),
              clustok |-> TRUE,
              written |-> Append(st.written,
                                 [id |-> id, seq |-> nseq, sp |-> sp, clust |-> clust])]

RECURSIVE MergeLoop(_, _, _, _, _, _)
MergeLoop(st, sp, lclust, c, dtagseq, laln) ==
    IF c > Len(lclust) THEN st
    ELSE MergeLoop(MergeStep(st, sp, lclust[c], dtagseq, laln),
                   sp, lclust, c + 1, dtagseq, laln)

\* "for sp, dtagseq in dId2Seq.items()"; history keeps, for every species,
\* the value of lclust at the end of each round of "for pos in range(laln)"
RECURSIVE SpeciesLoop(_, _, _, _, _)
SpeciesLoop(st, dId2Seq, s, laln, order) ==
    IF s > Len(dId2Seq) THEN st
    ELSE LET sp == dId2Seq[s][1]
             dtagseq == dId2Seq[s][2]
             lclust == ClusterLoop(<<DictKeyList(dtagseq)>>, dtagseq, 1, laln, order)
             m == MergeLoop([dRem |-> st.dRem, clustok |-> st.clustok,
                             written |-> st.written],
                            sp, lclust, 1, dtagseq, laln)
             perPos == [p \in 1..laln |->
                           ClusterLoop(<<DictKeyList(dtagseq)>>, dtagseq, 1, p, order)]
         IN  SpeciesLoop([dRem |-> m.dRem, clustok |-> m.clustok, written |-> m.written,
                          clusters |-> Append(st.clusters, <<sp, lclust>>),
                          history |-> Append(st.history, <<sp, perPos>>)],
                         dId2Seq, s + 1, laln, order)

\* the whole function; a is the path of the alignment and order the order
\* in which the sets of letters are iterated
isoformAln(a, o, files, order) ==
    LET rd == ReadAln(DictGet(files, a), 1, [dRem |-> <<>>, dId2Seq |-> <<>>, laln |-> 0])
        st == SpeciesLoop([dRem |-> rd.dRem, clustok |-> FALSE, written |-> <<>>,
                           clusters |-> <<>>, history |-> <<>>],
                          rd.dId2Seq, 1, rd.laln, order)
        outCov == o \o "clustiso.fasta"
    IN  IF st.clustok
        THEN [ret |-> outCov, disk |-> DictSet(files, outCov, st.dRem),
              locals |-> [dRem |-> st.dRem, clusters |-> st.clusters,
                          history |-> st.history, written |-> st.written]]
        ELSE [ret |-> a, disk |-> files,
              locals |-> [dRem |-> st.dRem, clusters |-> st.clusters,
                          history |-> st.history, written |-> st.written]]

----------------------------------------------------------------------------
(* The isoform specification: a call of isoformAln on an alignment.        *)

MaxCols == 2

MaxCells == 8

IsoChars == {"-", "A", "C"}

\* the orders in which Python may iterate over a set of the letters
LetterOrders == {<<"A", "C", "G", "T">>, <<"T", "G", "C", "A">>}

\* the identifiers of an alignment, in file order: isoforms of one species
IdLists ==
    {<<<<"h", "1">>, <<"h", "2">>>>,
     <<<<"h", "1">>, <<"h", "2">>, <<"h", "3">>>>,
     <<<<"h", "1">>, <<"h", "2">>, <<"h", "2", "clust">>>>,
     <<<<"h", "1">>, <<"h", "2">>, <<"h", "3">>, <<"h", "4">>>>}

\* the same with an untagged record or a second species among them; the
\* records of Others hold a sequence of "C" only
MixedLists ==
    {<<<<"x">>, <<"h", "1">>, <<"h", "2">>>>,
     <<<<"h", "1">>, <<"m", "1">>, <<"h", "2">>>>}

Others == {<<"x">>, <<"m", "1">>}

\* five species, the third with two isoforms
FiveSpecies ==
    <<<<"a", "1">>, <<"b", "1">>, <<"c", "1">>, <<"c", "2">>, <<"d", "1">>, <<"e", "1">>>>

IsoAlnPath == "out/prank.best.fas"

\* the alignments over the identifiers ids with n columns
AlnsOver(ids, n) ==
    \E seqs \in [{k \in DOMAIN ids : ids[k] \notin Others} -> [1..n -> IsoChars]] :
        disk = <<<<IsoAlnPath,
                   [k \in DOMAIN ids |->
                       <<ids[k], IF ids[k] \in Others THEN [i \in 1..n |-> "C"]
                                 ELSE seqs[k]>>]>>>>

IsoAlns(cols, cells) ==
    \E ids \in IdLists \cup MixedLists : \E n \in 1..cols :
        Len(ids) * n <= cells /\ AlnsOver(ids, n)

\* the two isoforms of the third species are the same at every column
FiveSpeciesAlns(cols) ==
    \E n \in 1..cols : \E s \in [1..n -> IsoChars] :
        disk = <<<<IsoAlnPath,
                   [k \in DOMAIN FiveSpecies |->
                       <<FiveSpecies[k],
                         IF FiveSpecies[k][1] = "c" THEN s
                         ELSE [i \in DOMAIN s |-> "A"]>>]>>>>

InitIso ==
    /\ pc = "ready"
    /\ aln = IsoAlnPath
    /\ IsoAlns(MaxCols, MaxCells) \/ FiveSpeciesAlns(MaxCols)
    /\ kh = None
    /\ dAlnTree = None
    /\ nbSp = None
    /\ LBOpt = None
    /\ loadTree = None
    /\ hostFile = None
    /\ trace = None
    /\ calls = <<>>
    /\ ret = None

IsoformAln ==
    /\ pc = "ready"
    /\ \E order \in LetterOrders :
          LET r == isoformAln(aln, OutDir, disk, order)
          IN  /\ ret' = r.ret
              /\ disk' = r.disk
              /\ trace' = r.locals
    /\ pc' = "isoformAln"
    /\ UNCHANGED <<aln, dAlnTree, nbSp, LBOpt, loadTree, kh, hostFile, calls>>

NextIso == IsoformAln

SpecIso == InitIso /\ [][NextIso]_vars

----------------------------------------------------------------------------
(* Properties of cutLongBranches and checkPhyMLTree, under SpecLB          *)

Returned == pc \in {"cutLongBranches", "checkPhyMLTree"}

\* the identifiers of the alignment as it was given
OriginalIds == DictKeys(AlnOfTree(loadTree))

\* the candidate groups in traversal order, then the remainder
AllGroups == Append(trace.groups, trace.rest)

\* C1: when at least one node is an outlier, there is one candidate group
\* per outlier node, the candidate groups and the remainder are pairwise
\* disjoint, and their union is the identifier set of the alignment.
C1_Partition ==
    (Returned /\ Len(trace.matches) > 0) =>
        /\ Len(trace.groups) = Len(trace.matches)
        /\ \A i, j \in DOMAIN AllGroups :
              i # j => DictKeys(AllGroups[i]) \cap DictKeys(AllGroups[j]) = {}
        /\ UNION {DictKeys(AllGroups[i]) : i \in DOMAIN AllGroups} = OriginalIds
        /\ \A i \in DOMAIN AllGroups : \A e \in DOMAIN AllGroups[i] :
              AllGroups[i][e][2] = DictGet(AlnOfTree(loadTree), AllGroups[i][e][1])

IsAncestor(t, a, b) ==
    \E path \in UNION {[1..k -> 1..t.n] : k \in 2..t.n} :
        /\ path[1] = a
        /\ path[Len(path)] = b
        /\ \A i \in 2..Len(path) : t.parent[path[i]] = path[i - 1]

\* an outlier node above another outlier inner node, whose leaves the
\* first group has already taken, and an outlier leaf
C1_Witness ==
    /\ Returned
    /\ \E i, j \in DOMAIN trace.matches :
          /\ IsAncestor(loadTree, trace.matches[i], trace.matches[j])
          /\ get_children(loadTree, trace.matches[j]) # <<>>
          /\ Len(trace.groups[i]) > 0
          /\ trace.groups[j] = <<>>
    /\ \E i \in DOMAIN trace.matches :
          get_children(loadTree, trace.matches[i]) = <<>>

\* the names of the groups that are large enough
KeptNames ==
    {PartName(aln, i) : i \in {k \in DOMAIN AllGroups : Len(AllGroups[k]) >= nbSp}}

\* C2: without an outlier the map is returned as it was; otherwise the
\* returned map is the input map without the entry of the split alignment
\* and with one entry valued "" for each group of at least nbSp sequences,
\* every other entry keeping its value.
C2_MapPost ==
    (pc = "cutLongBranches") =>
        IF Len(trace.matches) = 0
        THEN ret = dAlnTree
        ELSE /\ DictKeys(ret) = (DictKeys(dAlnTree) \ {JoinWith(aln, ".")}) \cup KeptNames
             /\ Cardinality(DictKeys(ret)) = Len(ret)
             /\ \A k \in DictKeys(ret) :
                   DictGet(ret, k) = IF k \in KeptNames THEN "" ELSE DictGet(dAlnTree, k)

\* a candidate group of two sequences with nbSp = 4 has no entry and no file
C2_Witness ==
    /\ pc = "cutLongBranches"
    /\ nbSp = 4
    /\ \E i \in DOMAIN trace.groups :
          /\ Len(trace.groups[i]) = 2
          /\ ~DictHas(ret, PartName(aln, i))
          /\ ~DictHas(disk, PartName(aln, i))

AllDists == [i \in 1..loadTree.n |-> loadTree.dist[i]]

\* C3: under "cutoff" the threshold is factor * mean(branch lengths), with
\* factor 50 when none is given, and the outliers are the nodes whose
\* branch is strictly longer; branch lengths 1,1,1,1,50 with the default
\* factor give the threshold 540, no outlier and the map unchanged.
C3_Cutoff ==
    (Returned /\ LBOpt.name = "cutoff") =>
        LET f == IF LBOpt.paren THEN LBOpt.num ELSE 50
            total == SumSeq(AllDists)
        IN  /\ trace.longDist.num * loadTree.n = f * total * trace.longDist.den
            /\ \A n \in 1..loadTree.n :
                  (\E i \in DOMAIN trace.matches : trace.matches[i] = n)
                      <=> loadTree.dist[n] * loadTree.n > f * total
            /\ (/\ ~LBOpt.paren
                /\ loadTree.n = 5
                /\ Cardinality({i \in 1..5 : loadTree.dist[i] = 1}) = 4
                /\ Cardinality({i \in 1..5 : loadTree.dist[i] = 50}) = 1)
               => /\ trace.longDist.num = 540 * trace.longDist.den
                  /\ trace.matches = <<>>
                  /\ (pc = "cutLongBranches" => ret = dAlnTree)

C3_Witness ==
    /\ pc = "cutLongBranches"
    /\ LBOpt.name = "cutoff"
    /\ ~LBOpt.paren
    /\ loadTree.n = 5
    /\ Cardinality({i \in 1..5 : loadTree.dist[i] = 1}) = 4
    /\ Cardinality({i \in 1..5 : loadTree.dist[i] = 50}) = 1
    /\ trace.matches = <<>>

\* the entries cutLongBranches left with the empty-tree sentinel
Sentinels == {i \in DOMAIN trace.dAlnTree : trace.dAlnTree[i][2] = ""}

\* C10: every entry left with the sentinel is re-aligned and a tree is
\* inferred on the result; with k >= 1 kept sub-alignments the returned
\* map has k entries, one per sub-alignment, none carrying the sentinel;
\* without a sentinel the map of cutLongBranches is returned.
C10_Refinement ==
    (pc = "checkPhyMLTree") =>
        /\ Len(calls) = 2 * Cardinality(Sentinels)
        /\ \A i \in DOMAIN ret : ret[i][2] # ""
        /\ IF Sentinels = {}
           THEN ret = trace.dAlnTree
           ELSE Cardinality(DictKeys(ret)) = Cardinality(Sentinels)

----------------------------------------------------------------------------
(* Properties of parseGard, under SpecGard                                 *)

\* the call returned a list of fragments
Cut == pc = "parseGard" /\ ~trace.scan.raised /\ Len(trace.scan.lBP) > 0

Original == DictGet(disk, AlnPath(aln))

\* the sequences of identifier id in the returned fragments, one after another
Reassembled(id) == Flatten([x \in DOMAIN ret |-> DictGet(DictGet(disk, ret[x]), id)])

\* the breakpoints of the report, each moved to the multiple of 3 at or after it
Rounded ==
    [i \in DOMAIN trace.scan.lBP |->
        CHOOSE m \in 0..(trace.scan.lBP[i] + 2) :
            /\ m % 3 = 0
            /\ m >= trace.scan.lBP[i]
            /\ \A k \in 0..(m - 1) : ~(k % 3 = 0 /\ k >= trace.scan.lBP[i])]

NonDecreasing(s) == \A i \in 1..(Len(s) - 1) : s[i] <= s[i + 1]

\* C4 as stated: whatever the breakpoints, the fragments of an identifier
\* put together in list order give back its sequence.
C4_RoundTripAnyOrder ==
    Cut => \A id \in DictKeys(Original) : Reassembled(id) = DictGet(Original, id)

\* C4 as amended: when the rounded breakpoints do not decrease in report
\* order (whatever they are relative to the alignment length), the
\* fragments of an identifier put together in list order give back its
\* sequence.
C4_RoundTripSorted ==
    (Cut /\ NonDecreasing(Rounded)) =>
        \A id \in DictKeys(Original) : Reassembled(id) = DictGet(Original, id)

\* increasing breakpoints, the last ones beyond the end of the alignment
C4_Witness ==
    /\ Cut
    /\ NonDecreasing(Rounded)
    /\ Len(Rounded) >= 2
    /\ Rounded[1] > 0
    /\ Rounded[1] < Rounded[2]
    /\ Rounded[1] < Len(Original[1][2])
    /\ Rounded[Len(Rounded)] > Len(Original[1][2])

\* C5 as stated: breakpoints [10,11,12] on 30 columns give the cut points
\* [0,12,30] and two fragments.
C5_TwoFragments ==
    (Cut /\ trace.scan.lBP = <<10, 11, 12>> /\ Len(Original[1][2]) = 30) =>
        /\ trace.cuts = <<0, 12, 30>>
        /\ Len(ret) = 2

\* C5 as amended: breakpoints [10,11,12] on 30 columns all round up to 12,
\* the cut points are [0,12,12,12,30] and four fragments are returned, the
\* second and the third with no column.
C5_FourFragments ==
    (Cut /\ trace.scan.lBP = <<10, 11, 12>> /\ Len(Original[1][2]) = 30) =>
        /\ trace.cuts = <<0, 12, 12, 12, 30>>
        /\ Len(ret) = 4
        /\ Len(trace.frags) = 4
        /\ \A k \in DOMAIN trace.frags[1] :
              /\ Len(trace.frags[1][k][2]) = 12
              /\ trace.frags[2][k][2] = <<>>
              /\ trace.frags[3][k][2] = <<>>
              /\ Len(trace.frags[4][k][2]) = 18

C5_Witness ==
    /\ Cut
    /\ trace.scan.lBP = <<10, 11, 12>>
    /\ Len(Original[1][2]) = 30
    /\ Len(ret) > 0

\* the columns a..b-1 (counted from 0) of s
Columns(s, a, b) ==
    LET cols == {c \in 0..(Len(s) - 1) : a <= c /\ c < b}
    IN  [k \in 1..Cardinality(cols) |-> s[a + k]]

\* C6: the cut points are 0, the breakpoints in report order each moved
\* to the smallest multiple of 3 at or after it, and the alignment
\* length; one fragment is returned per consecutive pair of cut points,
\* in order, holding every identifier of the alignment with the columns
\* a..b-1 of its sequence.
C6_Fragments ==
    Cut =>
        /\ trace.cuts = (<<0>> \o Rounded) \o <<Len(Original[1][2])>>
        /\ Len(ret) = Len(trace.cuts) - 1
        /\ Len(trace.frags) = Len(ret)
        /\ \A x \in DOMAIN ret :
              /\ DictKeyList(trace.frags[x]) = DictKeyList(Original)
              /\ DictGet(disk, ret[x]) = trace.frags[x]
              /\ \A k \in DOMAIN Original :
                    trace.frags[x][k][2] =
                        Columns(Original[k][2], trace.cuts[x], trace.cuts[x + 1])

\* breakpoints that meet after rounding, between fragments that hold columns
C6_Witness ==
    /\ Cut
    /\ Len(ret) >= 4
    /\ \E x \in 2..(Len(trace.cuts) - 2) :
          /\ trace.cuts[x] = trace.cuts[x + 1]
          /\ trace.scan.lBP[x - 1] # trace.scan.lBP[x]
          /\ trace.cuts[x] > 0
          /\ trace.cuts[x] < Len(Original[1][2])

FirstMarker == CHOOSE i \in DOMAIN kh : kh[i].marker /\ \A j \in 1..(i - 1) : ~kh[j].marker

\* C7: without a marker line the whole report is read, no fragment is
\* written and the empty list is returned; with one, the list is that of
\* the line after the first marker line and no further line is read.
C7_Scan ==
    (pc = "parseGard") =>
        IF \A i \in DOMAIN kh : ~kh[i].marker
        THEN /\ trace.scan.read = Len(kh)
             /\ trace.scan.lBP = <<>>
             /\ ~trace.scan.raised
             /\ ret = <<>>
             /\ disk = <<<<AlnPath(aln), Original>>>>
        ELSE (FirstMarker < Len(kh) /\ kh[FirstMarker + 1].list # <<>>) =>
                /\ trace.scan.lBP = kh[FirstMarker + 1].list
                /\ trace.scan.read = FirstMarker + 1
                /\ ~trace.scan.raised

\* a report of several lines, some with a list, none with the marker
C7_Witness ==
    /\ pc = "parseGard"
    /\ Len(kh) >= 2
    /\ \A i \in DOMAIN kh : ~kh[i].marker
    /\ \E i \in DOMAIN kh : kh[i].list # <<>>
    /\ ret = <<>>

----------------------------------------------------------------------------
(* Properties of isoformAln, under SpecIso                                 *)

IsoInput == DictGet(disk, IsoAlnPath)

\* the sequence the alignment holds for <species>_<tag>
InputSeq(sp, tag) ==
    IsoInput[CHOOSE k \in DOMAIN IsoInput :
                IdString(IsoInput[k][1]) = (sp \o "_") \o tag][2]

\* '-' < 'A' < 'C' < 'G' < 'T'
Rank(c) == CHOOSE r \in 1..5 : <<"-", "A", "C", "G", "T">>[r] = c

\* the record assigned to dRem for cluster c of species sp
WrittenFor(sp, c) == {w \in DOMAIN trace.written :
                         trace.written[w].sp = sp /\ trace.written[w].clust = c}

IsFiveSpecies ==
    /\ DictKeyList(IsoInput) = FiveSpecies
    /\ IsoInput[3][2] = IsoInput[4][2]

\* C9 as stated: the two isoforms are merged and the output has 4 records.
C9_FourRecords ==
    (pc = "isoformAln" /\ IsFiveSpecies) =>
        /\ ret # IsoAlnPath
        /\ DictHas(DictGet(disk, ret), "c_2_clust")
        /\ Len(DictGet(disk, ret)) = 4

\* C9 as amended: the two isoforms are merged into one consensus record
\* and the output has 5 records, that record and one for each of the
\* other four species.
C9_FiveRecords ==
    (pc = "isoformAln" /\ IsFiveSpecies) =>
        /\ ret # IsoAlnPath
        /\ DictKeys(DictGet(disk, ret)) = {"a_1", "b_1", "c_2_clust", "d_1", "e_1"}
        /\ Len(DictGet(disk, ret)) = 5
        /\ DictGet(DictGet(disk, ret), "c_2_clust") = IsoInput[3][2]

C9_Witness ==
    /\ pc = "isoformAln"
    /\ IsFiveSpecies
    /\ Len(IsoInput[3][2]) = 2
    /\ DictHas(disk, "out/clustiso.fasta")

----------------------------------------------------------------------------
(* Properties of gardRecomb, under SpecRecomb                              *)

\* the positions of a call in the log of calls
CallsOf(tool, path) == {i \in DOMAIN calls : calls[i] = <<tool, path>>}

\* the fragments that the calls of parseGard returned, over all alignments
ParsedFragments ==
    UNION {{trace.parsed[k][2][j] : j \in DOMAIN trace.parsed[k][2]} :
               k \in DOMAIN trace.parsed}

\* how many of the fragments returned by parseGard bear the path frag
Produced(frag) ==
    SumSeq([k \in DOMAIN trace.parsed |->
               Cardinality({j \in DOMAIN trace.parsed[k][2] : trace.parsed[k][2][j] = frag})])

\* C11: when gardRecomb returns, every key of the map it was given has had
\* exactly one call of runGARD and, after it, exactly one call of parseGard,
\* and every fragment produced has had its one call of runPhyML (as many
\* calls on a path as fragments were produced under it) and is a key of
\* the returned map.
C11_EachAlignment ==
    (pc = "gardRecomb" /\ ~trace.raised) =>
        /\ \A k \in DOMAIN dAlnTree :
              LET key == dAlnTree[k][1]
              IN  /\ Cardinality(CallsOf("runGARD", key)) = 1
                  /\ Cardinality(CallsOf("parseGard", key)) = 1
                  /\ \A i \in CallsOf("runGARD", key) :
                        \A j \in CallsOf("parseGard", key) : i < j
        /\ \A frag \in ParsedFragments :
              /\ Cardinality(CallsOf("runPhyML", frag)) = Produced(frag)
              /\ DictHas(ret, frag)

----------------------------------------------------------------------------
(* Properties of the clusters of isoformAln, under SpecIso                 *)

\* the tags of species sp in the alignment, in file order
TagsOf(sp) ==
    LET recs == SelectSeq(IsoInput, LAMBDA r : Len(r[1]) > 1 /\ r[1][1] = sp)
    IN  [k \in DOMAIN recs |-> JoinWith(Tail(recs[k][1]), "_")]

\* the letters that the tags of clust show at column pos
LettersAt(sp, clust, pos) ==
    {InputSeq(sp, clust[k])[pos] : k \in DOMAIN clust} \ {"-"}

\* lclust is a partition of the tags of sp into non-empty clusters
IsPartition(sp, lclust) ==
    LET all == Flatten(lclust)
    IN  /\ \A c \in DOMAIN lclust : Len(lclust[c]) > 0
        /\ \A i, j \in DOMAIN all : i # j => all[i] # all[j]
        /\ {all[i] : i \in DOMAIN all} = {TagsOf(sp)[k] : k \in DOMAIN TagsOf(sp)}

\* C12: after each column processed, the clusters of a species are
\* non-empty, pairwise disjoint and cover the tags of the species, and the
\* members of a cluster show at most one letter other than "-" at every
\* column processed so far; the clusters after the last column are the
\* final ones, and the consensus written for a final cluster equals each
\* member wherever that member is not "-".
C12_PartitionRefinement ==
    (pc = "isoformAln") =>
        /\ \A s \in DOMAIN trace.history :
              LET sp == trace.history[s][1]
                  perPos == trace.history[s][2]
              IN  /\ \A p \in DOMAIN perPos :
                        /\ IsPartition(sp, perPos[p])
                        /\ \A c \in DOMAIN perPos[p] : \A q \in 1..p :
                              Cardinality(LettersAt(sp, perPos[p][c], q)) <= 1
                  /\ trace.clusters[s][1] = sp
                  /\ Len(perPos) = Len(IsoInput[1][2])
                  /\ trace.clusters[s][2] = perPos[Len(perPos)]
        /\ Len(trace.history) = Len(trace.clusters)
        /\ \A i \in DOMAIN trace.written :
              LET w == trace.written[i]
              IN  \A k \in DOMAIN w.clust : \A pos \in DOMAIN w.seq :
                     InputSeq(w.sp, w.clust[k])[pos] # "-"
                         => w.seq[pos] = InputSeq(w.sp, w.clust[k])[pos]

\* an alignment of two columns, each of which splits a cluster of a
\* species, while a final cluster of two tags has a member with "-" where
\* the other has a letter
C12_Witness ==
    /\ pc = "isoformAln"
    /\ \E s \in DOMAIN trace.history :
          LET perPos == trace.history[s][2]
          IN  /\ Len(perPos) = 2
              /\ Len(perPos[1]) > 1
              /\ Len(perPos[2]) > Len(perPos[1])
    /\ \E i \in DOMAIN trace.written :
          LET w == trace.written[i]
          IN  /\ Len(w.clust) = 2
              /\ \E k \in DOMAIN w.clust : \E pos \in DOMAIN w.seq :
                    InputSeq(w.sp, w.clust[k])[pos] = "-" /\ w.seq[pos] # "-"

----------------------------------------------------------------------------
(* Properties of the identifiers written by isoformAln, under SpecIso      *)

\* the identifiers of the alignment are pairwise distinct
UniqueIds ==
    \A i, j \in DOMAIN IsoInput : i # j => IsoInput[i][1] # IsoInput[j][1]

\* the records of the alignment whose identifier has no "_"
Untagged == {k \in DOMAIN IsoInput : Len(IsoInput[k][1]) = 1}

\* the number of final clusters, over all species
NbClusters == SumSeq([s \in DOMAIN trace.clusters |-> Len(trace.clusters[s][2])])

\* C13: for an alignment with unique identifiers, the identifiers assigned
\* to dRem for the final clusters are pairwise distinct and distinct from
\* the identifiers without "_", and dRem ends with one record for each
\* identifier without "_" and one for each final cluster.
C13_NoCollision ==
    (pc = "isoformAln" /\ UniqueIds) =>
        /\ \A i, j \in DOMAIN trace.written :
              i # j => trace.written[i].id # trace.written[j].id
        /\ \A i \in DOMAIN trace.written : \A k \in Untagged :
              trace.written[i].id # IsoInput[k][1][1]
        /\ Len(trace.dRem) = Cardinality(Untagged) + NbClusters

====
